---- MODULE Spec2Model ----
(***************************************************************************)
(* A model of SemScho_forwardCitationFetch.py: the class                   *)
(* SemanticScholarCitationScraper (constructor, get_paper_by_doi,          *)
(* get_forward_citations, process_dois) and what main reports.             *)
(*                                                                         *)
(* Time is measured in hundredths of a second, so that the delays 3.1 and  *)
(* 0.31 are the integers 310 and 31 and the cooldown of 60 is 6000.        *)
(* Python strings that the code takes apart (the DOI, the abstract, the    *)
(* author names) are sequences of one-character strings.                   *)
(* JSON values are tagged records: None, str, int, list, dict.             *)
(* The two long lists, all_citations and all_forward_citations, are kept   *)
(* run-length encoded: a run stands for the consecutive edges (rows) of    *)
(* one page; Edges and Rows expand a list to its elements.                 *)
(***************************************************************************)
EXTENDS Integers, Sequences, FiniteSets, TLC

VARIABLES
    \* the object built by __init__
    api_key, headers, delay, has_api_key,
    \* get_forward_citations: its frame and what it has done so far
    fpc, f_paper_id, limit, params_limit, offset, all_citations, flog,
    \* get_paper_by_doi: its argument, the number of nested calls of itself
    \* that are active, its return value, and what it has done so far
    rpc, doi_arg, depth, caller_frames, r_result,
    r_requests, r_cooldowns, r_slept, r_sent, r_last,
    \* process_dois: its argument, the loop, its accumulator, and per document
    \* attempted what the resolver and the fetcher answered
    ppc, dois, i, paper, all_forward_citations, doc_log,
    \* main: what it reports about the returned dataset
    main_out,
    \* the network: requests sent and not yet answered
    outstanding,
    \* the service: how many 429 answers and how many full pages it has sent
    svc_throttles, svc_full_pages,
    \* the waits (time.sleep) of the run: whether a request has been sent
    \* yet, and the durations slept since the latest request was sent
    requested, waits

ctorVars    == <<api_key, headers, delay, has_api_key>>
fetchVars   == <<fpc, f_paper_id, limit, params_limit, offset, all_citations, flog>>
resolveVars == <<rpc, doi_arg, depth, caller_frames, r_result,
                 r_requests, r_cooldowns, r_slept, r_sent, r_last>>
processVars == <<ppc, dois, i, paper, all_forward_citations, doc_log, main_out>>
netVars     == <<outstanding, svc_throttles, svc_full_pages>>
waitVars    == <<requested, waits>>
vars        == <<ctorVars, fetchVars, resolveVars, processVars, netVars, waitVars>>

(***************************************************************************)
(* Bounds of the model.                                                    *)
(***************************************************************************)
\* SpecFetch: the service sends at most this many full pages, on which the
\* fetch goes on, and answers at most this many requests with 429
MaxPages == 2
MaxThrottle == 2
\* Spec: the same two caps for a whole run of process_dois
RunMaxPages == 1
RunMaxThrottle == 1

(***************************************************************************)
(* Program constants.                                                      *)
(***************************************************************************)
DefaultLimit   == 1000     \* get_forward_citations(..., limit: int = 1000)
LimitCeiling   == 1000     \* 'limit': min(limit, 1000)
ShortPageBound == 1000     \* if len(citations) < 1000: break
OffsetStep     == 1000     \* offset += 1000
StatusOK       == 200
StatusNotFound == 404
StatusThrottle == 429
FetchCooldownSeconds   == 60   \* time.sleep(60) in get_forward_citations
ResolveCooldownSeconds == 60   \* time.sleep(60) in get_paper_by_doi
\* CPython's default sys.getrecursionlimit(): the deepest stack of Python
\* frames the recursion of get_paper_by_doi can build
RecursionLimit == 1000
DelayNoKeyHundredths   == 310  \* self.delay = 3.1 if not api_key
DelayKeyHundredths     == 31   \* else 0.31

Hundredths(seconds) == seconds * 100

Min(a, b) == IF a < b THEN a ELSE b

(***************************************************************************)
(* Python values.                                                          *)
(***************************************************************************)
PyNone     == [t |-> "None"]
PyStr(s)   == [t |-> "str", v |-> s]
PyInt(n)   == [t |-> "int", v |-> n]
PyList(l)  == [t |-> "list", v |-> l]
PyDict(f)  == [t |-> "dict", v |-> f]
EmptyDict  == PyDict(<<>>)
Unknown    == PyStr(<<"U", "n", "k", "n", "o", "w", "n">>)

\* Python truthiness of a value
Truthy(x) ==
    CASE x.t = "None" -> FALSE
      [] x.t = "str"  -> x.v # <<>>
      [] x.t = "int"  -> x.v # 0
      [] x.t = "list" -> x.v # <<>>
      [] x.t = "dict" -> DOMAIN x.v # {}

(***************************************************************************)
(* __init__                                                                *)
(***************************************************************************)
ApiKeys == {PyNone, PyStr(<<>>), PyStr(<<"k">>)}

UserAgentHeader == "User-Agent" :> "SemanticScholarCitationScraper/1.0"

InitHeaders(key) ==
    IF Truthy(key) THEN UserAgentHeader @@ ("x-api-key" :> key.v)
    ELSE UserAgentHeader

\* a faulty reading of line 18 that goes by the key being given at all
InitDelayByPresence(key) ==
    IF key = PyNone THEN DelayNoKeyHundredths ELSE DelayKeyHundredths

InitDelay(key) ==
    IF ~Truthy(key) THEN DelayNoKeyHundredths ELSE DelayKeyHundredths

InitHasApiKey(key) == key # PyNone

Construct(key) ==
    /\ api_key = key
    /\ headers = InitHeaders(key)
    /\ delay = InitDelay(key)
    /\ has_api_key = InitHasApiKey(key)

(***************************************************************************)
(* Events a call records, in the order they happen.                        *)
(***************************************************************************)
EvReq(pid, off, lim) == [e |-> "req", paper |-> pid, offset |-> off, limit |-> lim]
EvResp(kind, status, n, shape) ==
    [e |-> "resp", kind |-> kind, status |-> status, n |-> n, shape |-> shape]
EvSleep(d) == [e |-> "sleep", d |-> d]

IsReq(ev)   == ev.e = "req"
IsResp(ev)  == ev.e = "resp"

IsThrottleResp(ev) == IsResp(ev) /\ ev.kind = "http" /\ ev.status = StatusThrottle
ThrottleCount(log) == Len(SelectSeq(log, IsThrottleResp))

(***************************************************************************)
(* Python strings as sequences of characters.                              *)
(***************************************************************************)
StartsWith(s, pat) == Len(s) >= Len(pat) /\ SubSeq(s, 1, Len(pat)) = pat

\* str.replace(pat, ''): every occurrence of pat, found left to right, goes
RECURSIVE Remove(_, _)
Remove(s, pat) ==
    IF s = <<>> THEN <<>>
    ELSE IF StartsWith(s, pat) THEN Remove(SubSeq(s, Len(pat) + 1, Len(s)), pat)
         ELSE <<Head(s)>> \o Remove(Tail(s), pat)

Whitespace == {" ", "\t", "\n"}

RECURSIVE LStrip(_)
LStrip(s) == IF s # <<>> /\ Head(s) \in Whitespace THEN LStrip(Tail(s)) ELSE s

RECURSIVE RStrip(_)
RStrip(s) ==
    IF s # <<>> /\ s[Len(s)] \in Whitespace THEN RStrip(SubSeq(s, 1, Len(s) - 1)) ELSE s

\* str.strip()
Strip(s) == LStrip(RStrip(s))

\* s[:n]
Prefix(s, n) == SubSeq(s, 1, Min(n, Len(s)))

(***************************************************************************)
(* dict.get(key, default) on a tagged dict                                 *)
(***************************************************************************)
Get(d, key, default) == IF key \in DOMAIN d.v THEN d.v[key] ELSE default

(***************************************************************************)
(* The paper endpoint.  A found paper always carries its paperId; title,   *)
(* corpusId and year are each present, missing or null.                    *)
(***************************************************************************)
FieldStates == {"present", "missing", "null"}

PaperShapes == [title : FieldStates, corpusId : FieldStates, year : FieldStates]

FullPaper == [title |-> "present", corpusId |-> "present", year |-> "present"]

Field(key, state, value) ==
    CASE state = "present" -> key :> value
      [] state = "null"    -> key :> PyNone
      [] state = "missing" -> <<>>

PaperIdOf(clean) == PyStr(<<"p", "-">> \o clean)

PaperJson(clean, shape) ==
    PyDict(("paperId" :> PaperIdOf(clean))
           @@ Field("title", shape.title, PyStr(<<"T">> \o clean))
           @@ Field("corpusId", shape.corpusId, PyInt(7))
           @@ Field("year", shape.year, PyInt(2024)))

(***************************************************************************)
(* get_paper_by_doi                                                        *)
(***************************************************************************)
\* line 23
CleanDoi(doi) == Strip(Remove(Remove(doi, <<"D", "O", "I", ":">>), <<"d", "o", "i", ":">>))

\* lines 25-28 and 31: what goes on the wire
ResolveRequestOf(doi) ==
    [url     |-> <<"/", "p", "a", "p", "e", "r", "/", "D", "O", "I", ":">> \o CleanDoi(doi),
     fields  |-> "paperId,corpusId,title,authors,year,citationCount,venue,externalIds",
     headers |-> headers]

ResolveIdle ==
    /\ rpc = "idle"
    /\ doi_arg = <<>>
    /\ depth = 0
    /\ caller_frames = 0
    /\ r_result = PyNone
    /\ r_requests = 0
    /\ r_cooldowns = 0
    /\ r_slept = 0
    /\ r_sent = {}
    /\ r_last = "none"

\* the call has returned and its caller has taken the result
ResolveLeft ==
    /\ rpc' = "idle"
    /\ doi_arg' = <<>>
    /\ depth' = 0
    /\ caller_frames' = 0
    /\ r_result' = PyNone
    /\ r_requests' = 0
    /\ r_cooldowns' = 0
    /\ r_slept' = 0
    /\ r_sent' = {}
    /\ r_last' = "none"

\* the call get_paper_by_doi(doi) from a caller `frames` frames deep
ResolveEntry(doi, frames) ==
    /\ rpc' = "request"
    /\ doi_arg' = doi
    /\ depth' = 1
    /\ caller_frames' = frames
    /\ r_result' = PyNone
    /\ r_requests' = 0
    /\ r_cooldowns' = 0
    /\ r_slept' = 0
    /\ r_sent' = {}
    /\ r_last' = "none"

\* whether the interpreter can push one more frame on the innermost call
StackExhausted == caller_frames + depth + 1 > RecursionLimit

\* lines 30-31: requests.get(...); with no frame left for it the call raises
\* RecursionError inside the try, which line 51 catches: return None
ResolveRequest ==
    /\ rpc = "request"
    /\ IF StackExhausted
       THEN /\ rpc' = "returned"
            /\ r_result' = PyNone
            /\ r_last' = "recursion"
            /\ UNCHANGED <<r_requests, r_sent, outstanding, waitVars>>
       ELSE /\ rpc' = "awaiting"
            /\ r_requests' = r_requests + 1
            /\ r_sent' = r_sent \cup {ResolveRequestOf(doi_arg)}
            /\ outstanding' = outstanding + 1
            /\ requested' = TRUE
            /\ waits' = <<>>
            /\ UNCHANGED <<r_result, r_last>>
    /\ UNCHANGED <<doi_arg, depth, caller_frames, r_cooldowns, r_slept,
                   svc_throttles, svc_full_pages, ctorVars, fetchVars, processVars>>

\* lines 33-36: status 200.  Printing the title slices it, which raises
\* TypeError on a null title; line 51 catches that: return None
ResolveOK(shape) ==
    /\ rpc = "awaiting"
    /\ UNCHANGED <<svc_throttles, svc_full_pages>>
    /\ outstanding' = outstanding - 1
    /\ UNCHANGED waitVars
    /\ LET paper_data == PaperJson(CleanDoi(doi_arg), shape)
           title == Get(paper_data, "title", Unknown)
       IN  IF title.t = "str"
           THEN r_result' = paper_data
           ELSE r_result' = PyNone
    /\ rpc' = "returned"
    /\ r_last' = "ok"
    /\ UNCHANGED <<doi_arg, depth, caller_frames, r_requests, r_cooldowns, r_slept, r_sent,
                   ctorVars, fetchVars, processVars>>

\* lines 37-39: status 404
ResolveNotFound ==
    /\ rpc = "awaiting"
    /\ UNCHANGED <<svc_throttles, svc_full_pages>>
    /\ outstanding' = outstanding - 1
    /\ UNCHANGED waitVars
    /\ r_result' = PyNone
    /\ rpc' = "returned"
    /\ r_last' = "notfound"
    /\ UNCHANGED <<doi_arg, depth, caller_frames, r_requests, r_cooldowns, r_slept, r_sent,
                   ctorVars, fetchVars, processVars>>

\* lines 40-43: status 429: sleep, then the call calls itself
ResolveThrottled(cap) ==
    /\ rpc = "awaiting"
    /\ svc_throttles < cap
    /\ svc_throttles' = svc_throttles + 1
    /\ outstanding' = outstanding - 1
    /\ requested' = requested
    /\ waits' = Append(waits, Hundredths(ResolveCooldownSeconds))
    /\ UNCHANGED svc_full_pages
    /\ r_cooldowns' = r_cooldowns + 1
    /\ r_slept' = r_slept + Hundredths(ResolveCooldownSeconds)
    /\ depth' = depth + 1
    /\ rpc' = "request"
    /\ r_last' = "throttled"
    /\ UNCHANGED <<doi_arg, caller_frames, r_result, r_requests, r_sent,
                   ctorVars, fetchVars, processVars>>

\* lines 44-46: any other status
ResolveHttpError(status) ==
    /\ rpc = "awaiting"
    /\ UNCHANGED <<svc_throttles, svc_full_pages>>
    /\ status \notin {StatusOK, StatusNotFound, StatusThrottle}
    /\ outstanding' = outstanding - 1
    /\ UNCHANGED waitVars
    /\ r_result' = PyNone
    /\ rpc' = "returned"
    /\ r_last' = "httperror"
    /\ UNCHANGED <<doi_arg, depth, caller_frames, r_requests, r_cooldowns, r_slept, r_sent,
                   ctorVars, fetchVars, processVars>>

\* a faulty handling of an exception that sends the request once more
ResolveRaisedRetries(kind) ==
    /\ rpc = "awaiting"
    /\ UNCHANGED <<svc_throttles, svc_full_pages>>
    /\ kind \in {"timeout", "exception"}
    /\ outstanding' = outstanding - 1
    /\ UNCHANGED waitVars
    /\ r_result' = PyNone
    /\ rpc' = IF r_requests = r_cooldowns + 1 THEN "request" ELSE "returned"
    /\ r_last' = kind
    /\ UNCHANGED <<doi_arg, depth, caller_frames, r_requests, r_cooldowns, r_slept, r_sent,
                   ctorVars, fetchVars, processVars>>

\* lines 48-53: requests.exceptions.Timeout, or any other exception
ResolveRaised(kind) ==
    /\ rpc = "awaiting"
    /\ UNCHANGED <<svc_throttles, svc_full_pages>>
    /\ kind \in {"timeout", "exception"}
    /\ outstanding' = outstanding - 1
    /\ UNCHANGED waitVars
    /\ r_result' = PyNone
    /\ rpc' = "returned"
    /\ r_last' = kind
    /\ UNCHANGED <<doi_arg, depth, caller_frames, r_requests, r_cooldowns, r_slept, r_sent,
                   ctorVars, fetchVars, processVars>>

(***************************************************************************)
(* The citations endpoint.  The citation set of a paper is a list; the     *)
(* edge at position k of it is the record [pos |-> k, shape |-> s], where  *)
(* the shape <<field, state>> says which nested field of the edge is not   *)
(* plainly present, and how (EdgeJson below spells the record out).  A     *)
(* page requested at offset o holds the edges at positions o+1 .. o+n,     *)
(* all of one shape.  A list of edges is a sequence of runs                *)
(* [off, n, shape], each standing for the edges off+1 .. off+n.            *)
(***************************************************************************)
\* len(list)
RECURSIVE PyLen(_)
PyLen(runs) == IF runs = <<>> THEN 0 ELSE Head(runs).n + PyLen(Tail(runs))

\* the elements of a list of edges
RECURSIVE Edges(_)
Edges(runs) ==
    IF runs = <<>> THEN <<>>
    ELSE [k \in 1..Head(runs).n |-> [pos |-> Head(runs).off + k, shape |-> Head(runs).shape]]
            \o Edges(Tail(runs))

FullShape == <<"none", "present">>
NoShape   == <<"none", "none">>

Page(off, n, shape) ==
    IF n = 0 THEN <<>> ELSE <<[off |-> off, n |-> n, shape |-> shape]>>

\* the page sizes the service may answer a request for `lim` edges with:
\* nothing, one edge, a partial page, a full page, and one edge too many
PageSizeChoices(lim) ==
    {n \in {0, 1, 400, lim - 1, lim, lim + 1} : n >= 0 /\ n <= lim + 1}

OtherStatuses == {403, 500}

(***************************************************************************)
(* get_forward_citations                                                   *)
(***************************************************************************)
PageSize(lim) == Min(lim, LimitCeiling)

\* a faulty reading of line 84 that also takes a full page for the last one
IsShortPageInclusive(citations) == PyLen(citations) <= ShortPageBound

\* line 84: len(citations) < 1000
IsShortPage(citations) == PyLen(citations) < ShortPageBound

\* a faulty step that moves one edge too far
NextOffsetSkipsOne(off) == off + OffsetStep + 1

NextOffset(off) == off + OffsetStep

FetchIdle ==
    /\ fpc = "idle"
    /\ f_paper_id = <<>>
    /\ limit = 0
    /\ params_limit = 0
    /\ offset = 0
    /\ all_citations = <<>>
    /\ flog = <<>>

\* the call has returned and its caller has taken the result
FetchLeft ==
    /\ fpc' = "idle"
    /\ f_paper_id' = <<>>
    /\ limit' = 0
    /\ params_limit' = 0
    /\ offset' = 0
    /\ all_citations' = <<>>
    /\ flog' = <<>>

\* lines 55-65: the frame at the top of the loop
FetchEntry(pid, lim) ==
    /\ fpc' = "loop"
    /\ f_paper_id' = pid
    /\ limit' = lim
    /\ params_limit' = PageSize(lim)
    /\ offset' = 0
    /\ all_citations' = <<>>
    /\ flog' = <<>>

\* a faulty request that does not block: a second one goes out behind it
FetchRequestPipelined ==
    /\ fpc = "loop"
    /\ outstanding < 2
    /\ fpc' = IF outstanding = 0 THEN "loop" ELSE "awaiting"
    /\ flog' = Append(flog, EvReq(f_paper_id, offset, params_limit))
    /\ outstanding' = outstanding + 1
    /\ requested' = TRUE
    /\ waits' = <<>>
    /\ UNCHANGED <<svc_throttles, svc_full_pages>>
    /\ UNCHANGED <<f_paper_id, limit, params_limit, offset, all_citations, ctorVars, resolveVars, processVars>>

\* lines 68-71: params['offset'] = offset; requests.get(...)
FetchRequest ==
    /\ fpc = "loop"
    /\ fpc' = "awaiting"
    /\ flog' = Append(flog, EvReq(f_paper_id, offset, params_limit))
    /\ outstanding' = outstanding + 1
    /\ requested' = TRUE
    /\ waits' = <<>>
    /\ UNCHANGED <<svc_throttles, svc_full_pages>>
    /\ UNCHANGED <<f_paper_id, limit, params_limit, offset, all_citations, ctorVars, resolveVars, processVars>>

\* lines 73-88 and 106: status 200 with a page of n edges
FetchOK(n, shape, maxPages) ==
    /\ fpc = "awaiting"
    /\ n >= ShortPageBound => svc_full_pages < maxPages
    /\ svc_full_pages' = IF n >= ShortPageBound THEN svc_full_pages + 1 ELSE svc_full_pages
    /\ outstanding' = outstanding - 1
    /\ requested' = requested
    /\ UNCHANGED svc_throttles
    /\ LET citations == Page(offset, n, shape)
           resp == EvResp("http", StatusOK, n, shape)
       IN  IF citations = <<>>
           THEN /\ fpc' = "returned"
                /\ flog' = Append(flog, resp)
                /\ UNCHANGED <<offset, all_citations, waits>>
           ELSE /\ all_citations' = all_citations \o citations
                /\ IF IsShortPage(citations)
                   THEN /\ fpc' = "returned"
                        /\ flog' = Append(flog, resp)
                        /\ UNCHANGED <<offset, waits>>
                   ELSE /\ offset' = NextOffset(offset)
                        /\ flog' = flog \o <<resp, EvSleep(delay), EvSleep(delay)>>
                        /\ waits' = waits \o <<delay, delay>>
                        /\ fpc' = "loop"
    /\ UNCHANGED <<f_paper_id, limit, params_limit, ctorVars, resolveVars, processVars>>

\* a faulty handling of status 429 that moves on to the next page
FetchThrottledAdvances(cap) ==
    /\ fpc = "awaiting"
    /\ svc_throttles < cap
    /\ svc_throttles' = svc_throttles + 1
    /\ outstanding' = outstanding - 1
    /\ requested' = requested
    /\ waits' = Append(waits, Hundredths(FetchCooldownSeconds))
    /\ UNCHANGED svc_full_pages
    /\ flog' = flog \o <<EvResp("http", StatusThrottle, 0, NoShape),
                         EvSleep(Hundredths(FetchCooldownSeconds))>>
    /\ offset' = NextOffset(offset)
    /\ fpc' = "loop"
    /\ UNCHANGED <<f_paper_id, limit, params_limit, all_citations, ctorVars, resolveVars, processVars>>

\* lines 90-93: status 429
FetchThrottled(cap) ==
    /\ fpc = "awaiting"
    /\ svc_throttles < cap
    /\ svc_throttles' = svc_throttles + 1
    /\ outstanding' = outstanding - 1
    /\ requested' = requested
    /\ waits' = Append(waits, Hundredths(FetchCooldownSeconds))
    /\ UNCHANGED svc_full_pages
    /\ flog' = flog \o <<EvResp("http", StatusThrottle, 0, NoShape),
                         EvSleep(Hundredths(FetchCooldownSeconds))>>
    /\ fpc' = "loop"
    /\ UNCHANGED <<f_paper_id, limit, params_limit, offset, all_citations, ctorVars, resolveVars, processVars>>

\* lines 95-97: any other status
FetchHttpError(status) ==
    /\ fpc = "awaiting"
    /\ UNCHANGED <<svc_throttles, svc_full_pages>>
    /\ status \notin {StatusOK, StatusThrottle}
    /\ outstanding' = outstanding - 1
    /\ UNCHANGED waitVars
    /\ flog' = Append(flog, EvResp("http", status, 0, NoShape))
    /\ fpc' = "returned"
    /\ UNCHANGED <<f_paper_id, limit, params_limit, offset, all_citations, ctorVars, resolveVars, processVars>>

\* a faulty handling of an exception that throws the pages received away
FetchRaisedDropsPages(kind) ==
    /\ fpc = "awaiting"
    /\ UNCHANGED <<svc_throttles, svc_full_pages>>
    /\ kind \in {"timeout", "exception"}
    /\ outstanding' = outstanding - 1
    /\ UNCHANGED waitVars
    /\ flog' = Append(flog, EvResp(kind, 0, 0, NoShape))
    /\ all_citations' = <<>>
    /\ fpc' = "returned"
    /\ UNCHANGED <<f_paper_id, limit, params_limit, offset, ctorVars, resolveVars, processVars>>

\* lines 99-104: requests.exceptions.Timeout, or any other exception
FetchRaised(kind) ==
    /\ fpc = "awaiting"
    /\ UNCHANGED <<svc_throttles, svc_full_pages>>
    /\ kind \in {"timeout", "exception"}
    /\ outstanding' = outstanding - 1
    /\ UNCHANGED waitVars
    /\ flog' = Append(flog, EvResp(kind, 0, 0, NoShape))
    /\ fpc' = "returned"
    /\ UNCHANGED <<f_paper_id, limit, params_limit, offset, all_citations, ctorVars, resolveVars, processVars>>

FetchStep(sizes, shapes, statuses, raised, maxPages, maxThrottle) ==
    \/ FetchRequest
    \/ \E n \in sizes, shape \in shapes : FetchOK(n, shape, maxPages)
    \/ FetchThrottled(maxThrottle)
    \/ \E s \in statuses : FetchHttpError(s)
    \/ \E k \in raised : FetchRaised(k)

(***************************************************************************)
(* Reading a fetch log.                                                    *)
(***************************************************************************)
IsOKResp(ev) == IsResp(ev) /\ ev.kind = "http" /\ ev.status = StatusOK
IsFaultResp(ev) ==
    IsResp(ev) /\ (ev.kind # "http" \/ ev.status \notin {StatusOK, StatusThrottle})

ReqIndices(log) == {k \in 1..Len(log) : IsReq(log[k])}
RespIndices(log) == {k \in 1..Len(log) : IsResp(log[k])}

\* the request a response answers is the event right before it
RequestOf(log, k) == log[k - 1]

\* the first request after position k, or 0
NextReqAfter(log, k) ==
    IF \E j \in ReqIndices(log) : j > k
    THEN CHOOSE j \in ReqIndices(log) : j > k /\ \A m \in ReqIndices(log) : m > k => j <= m
    ELSE 0

\* the pages of the 200 responses among the first k events, in order
RECURSIVE PagesUpTo(_, _)
PagesUpTo(log, k) ==
    IF k = 0 THEN <<>>
    ELSE IF IsOKResp(log[k])
         THEN PagesUpTo(log, k - 1)
                 \o Page(RequestOf(log, k).offset, log[k].n, log[k].shape)
         ELSE PagesUpTo(log, k - 1)

\* the offsets of the requests of a log, in order
RECURSIVE ReqOffsets(_)
ReqOffsets(log) ==
    IF log = <<>> THEN <<>>
    ELSE IF IsReq(Head(log)) THEN <<Head(log).offset>> \o ReqOffsets(Tail(log))
         ELSE ReqOffsets(Tail(log))

\* the sizes of the pages of the 200 responses of a log, in order
RECURSIVE PageSizes(_)
PageSizes(log) ==
    IF log = <<>> THEN <<>>
    ELSE IF IsOKResp(Head(log)) THEN <<Head(log).n>> \o PageSizes(Tail(log))
         ELSE PageSizes(Tail(log))

\* a log with its throttled exchanges (request, 429, cooldown) taken out
RECURSIVE WithoutThrottling(_)
WithoutThrottling(log) ==
    IF log = <<>> THEN <<>>
    ELSE IF Len(log) >= 3 /\ IsReq(log[1]) /\ IsThrottleResp(log[2])
         THEN WithoutThrottling(SubSeq(log, 4, Len(log)))
         ELSE <<Head(log)>> \o WithoutThrottling(Tail(log))

NoThrottleNoFault(log) ==
    \A k \in RespIndices(log) : IsOKResp(log[k])

(***************************************************************************)
(* The record of a citation edge, as the service sends it.  Every nested   *)
(* field is present, missing or null; a shape <<field, state>> names the   *)
(* one field that is not plainly present.                                  *)
(***************************************************************************)
EdgeFields ==
    {"citingPaper", "authors", "author", "name", "externalIds", "abstract",
     "publicationTypes", "title", "year", "venue", "citationCount", "paperId"}

\* abstracts of these lengths: none, one character, around the cut of line
\* 152, and well over it
AbstractTexts ==
    [len0 |-> 0, len1 |-> 1, len499 |-> 499, len500 |-> 500, len501 |-> 501, len600 |-> 600]

AbstractText(n) == [k \in 1..n |-> IF k % 2 = 1 THEN "a" ELSE "b"]

EdgeShapes ==
    {FullShape} \cup (EdgeFields \X {"missing", "null"})
                \cup ({"abstract"} \X DOMAIN AbstractTexts)

\* the abstract of a citing paper: a text of a given length, or as Field
AbstractField(state) ==
    IF state \in DOMAIN AbstractTexts
    THEN "abstract" :> PyStr(AbstractText(AbstractTexts[state]))
    ELSE Field("abstract", state, PyStr(<<"a", "b", "s">>))

StateIn(shape, field) == IF shape[1] = field THEN shape[2] ELSE "present"

AuthorJson(shape) ==
    CASE StateIn(shape, "author") = "null" -> PyNone
      [] OTHER -> PyDict(("authorId" :> PyStr(<<"1">>))
                         @@ Field("name", StateIn(shape, "name"), PyStr(<<"A">>)))

CitingPaperJson(pos, shape) ==
    PyDict(Field("paperId", StateIn(shape, "paperId"), PyStr(<<"c", ToString(pos)>>))
        @@ Field("title", StateIn(shape, "title"), PyStr(<<"t">>))
        @@ Field("authors", StateIn(shape, "authors"),
                 PyList(<<AuthorJson(shape), PyDict("name" :> PyStr(<<"B">>))>>))
        @@ Field("year", StateIn(shape, "year"), PyInt(2020))
        @@ Field("venue", StateIn(shape, "venue"), PyStr(<<"v">>))
        @@ Field("citationCount", StateIn(shape, "citationCount"), PyInt(5))
        @@ Field("externalIds", StateIn(shape, "externalIds"),
                 PyDict(("DOI" :> PyStr(<<"d">>)) @@ ("PubMed" :> PyStr(<<"m">>))))
        @@ AbstractField(StateIn(shape, "abstract"))
        @@ Field("publicationTypes", StateIn(shape, "publicationTypes"),
                 PyList(<<PyStr(<<"J">>), PyStr(<<"R">>)>>)))

EdgeJson(edge) ==
    PyDict(Field("citingPaper", StateIn(edge.shape, "citingPaper"),
                 CitingPaperJson(edge.pos, edge.shape)))

(***************************************************************************)
(* process_dois, lines 127-155: one citation to one row.  The result is    *)
(* [ok |-> TRUE, row |-> ...], or [ok |-> FALSE, error |-> ...] where the  *)
(* Python code raises.                                                     *)
(***************************************************************************)
EmptyStr == PyStr(<<>>)

Raises(error) == [ok |-> FALSE, error |-> error]

\* sep.join(parts) for a sequence of character sequences
RECURSIVE Join(_, _)
Join(parts, sep) ==
    IF parts = <<>> THEN <<>>
    ELSE IF Len(parts) = 1 THEN parts[1]
         ELSE parts[1] \o sep \o Join(Tail(parts), sep)

Semicolon == <<";", " ">>

Ellipsis == <<".", ".", ".">>

AbstractCut == 500     \* citing_paper.get('abstract', '')[:500]

\* a faulty reading of line 152 that marks only the abstracts it has cut
CitingAbstractMarksCutOnly(citing_paper) ==
    LET abstract == Get(citing_paper, "abstract", PyNone)
    IN  IF ~Truthy(abstract) THEN EmptyStr
        ELSE IF Len(abstract.v) > AbstractCut
             THEN PyStr(Prefix(abstract.v, AbstractCut) \o Ellipsis)
             ELSE abstract

\* line 152
CitingAbstract(citing_paper) ==
    IF Truthy(Get(citing_paper, "abstract", PyNone))
    THEN PyStr(Prefix(Get(citing_paper, "abstract", EmptyStr).v, AbstractCut) \o Ellipsis)
    ELSE EmptyStr

\* x or default
OrElse(x, default) == IF Truthy(x) THEN x ELSE default

Normalize(citation, doi, the_paper, paper_id, original_title) ==
    LET citing_paper == Get(citation, "citingPaper", EmptyDict)
    IN  IF citing_paper.t # "dict" THEN Raises("AttributeError")       \* line 130
        ELSE
    LET authors == Get(citing_paper, "authors", PyList(<<>>))
    IN  IF authors.t # "list" THEN Raises("TypeError")                 \* line 131
        ELSE IF \E k \in 1..Len(authors.v) : authors.v[k].t # "dict"
        THEN Raises("AttributeError")                                  \* line 131
        ELSE
    LET author_names == [k \in 1..Len(authors.v) |-> Get(authors.v[k], "name", EmptyStr)]
        external_ids == OrElse(Get(citing_paper, "externalIds", PyNone), EmptyDict)
        pub_types    == OrElse(Get(citing_paper, "publicationTypes", PyNone), PyList(<<>>))
    IN  IF \E k \in 1..Len(author_names) : author_names[k].t # "str"
        THEN Raises("TypeError")                                       \* line 143
        ELSE
        [ok  |-> TRUE,
         row |-> [original_doi             |-> PyStr(doi),
                  original_title           |-> original_title,
                  original_paper_id        |-> paper_id,
                  original_corpus_id       |-> Get(the_paper, "corpusId", EmptyStr),
                  citing_title             |-> Get(citing_paper, "title", EmptyStr),
                  citing_authors           |->
                      PyStr(Join([k \in 1..Len(author_names) |-> author_names[k].v],
                                 Semicolon)),
                  citing_year              |-> Get(citing_paper, "year", EmptyStr),
                  citing_venue             |-> Get(citing_paper, "venue", EmptyStr),
                  citing_doi               |-> Get(external_ids, "DOI", EmptyStr),
                  citing_pubmed_id         |-> Get(external_ids, "PubMed", EmptyStr),
                  citing_arxiv_id          |-> Get(external_ids, "ArXiv", EmptyStr),
                  citing_citation_count    |-> Get(citing_paper, "citationCount", PyInt(0)),
                  citing_paper_id          |-> Get(citing_paper, "paperId", EmptyStr),
                  citing_publication_types |->
                      PyStr(Join([k \in 1..Len(pub_types.v) |-> pub_types.v[k].v],
                                 Semicolon)),
                  citing_abstract          |-> CitingAbstract(citing_paper)]]

\* lines 121-122 and 127-155 for one edge of the document `doi`, resolved to
\* the_paper
RowOf(edge, doi, the_paper) ==
    Normalize(EdgeJson(edge), doi, the_paper, the_paper.v["paperId"],
              Get(the_paper, "title", Unknown))

\* The same for a run of edges.  The edges of a run differ in their position
\* alone, which Normalize copies and never inspects, so either every edge of
\* the run gives a row or the first one raises.
NormalizeRun(run, doi, the_paper) ==
    LET first == RowOf([pos |-> run.off + 1, shape |-> run.shape], doi, the_paper)
    IN  IF first.ok
        THEN [ok |-> TRUE,
              rows |-> [doi |-> doi, paper |-> the_paper,
                        off |-> run.off, n |-> run.n, shape |-> run.shape]]
        ELSE first

\* the rows a list of row runs stands for
RECURSIVE Rows(_)
Rows(runs) ==
    IF runs = <<>> THEN <<>>
    ELSE [k \in 1..Head(runs).n |->
             RowOf([pos |-> Head(runs).off + k, shape |-> Head(runs).shape],
                   Head(runs).doi, Head(runs).paper).row]
            \o Rows(Tail(runs))

(***************************************************************************)
(* process_dois                                                            *)
(***************************************************************************)
\* the frames below get_paper_by_doi when main runs: <module>, main,
\* process_dois
FramesBelowResolver == 3

ProcessIdle ==
    /\ ppc = "idle"
    /\ dois = <<>>
    /\ i = 0
    /\ paper = PyNone
    /\ all_forward_citations = <<>>
    /\ doc_log = <<>>
    /\ main_out = "none"

\* what a document's resolve and fetch answered: the value get_paper_by_doi
\* returned and the answer it came from, and the pages and the last answer
\* get_forward_citations got
DocEntry(doi, resolved, how, log) ==
    [doi |-> doi, paper |-> resolved, resolve |-> how,
     pages |-> PagesUpTo(log, Len(log)),
     last |-> IF log = <<>> THEN "none"
              ELSE IF log[Len(log)].kind # "http" THEN log[Len(log)].kind
              ELSE IF log[Len(log)].status = StatusOK THEN "ok" ELSE "httperror"]

\* lines 113-117: the next document, if any: call get_paper_by_doi(doi)
ProcessResolve ==
    /\ ppc = "for"
    /\ i < Len(dois)
    /\ i' = i + 1
    /\ ppc' = "resolving"
    /\ ResolveEntry(dois[i + 1], FramesBelowResolver)
    /\ UNCHANGED <<dois, paper, all_forward_citations, doc_log, main_out,
                   ctorVars, fetchVars, netVars, waitVars>>

\* lines 118-119: if not paper: continue
ProcessSkip ==
    /\ ppc = "resolving"
    /\ rpc = "returned"
    /\ ~Truthy(r_result)
    /\ paper' = r_result
    /\ doc_log' = Append(doc_log, DocEntry(dois[i], r_result, r_last, <<>>))
    /\ ppc' = "for"
    /\ ResolveLeft
    /\ UNCHANGED <<dois, i, all_forward_citations, main_out,
                   ctorVars, fetchVars, netVars, waitVars>>

\* lines 121-124: call get_forward_citations(paper_id)
ProcessFetch ==
    /\ ppc = "resolving"
    /\ rpc = "returned"
    /\ Truthy(r_result)
    /\ paper' = r_result
    /\ FetchEntry(r_result.v["paperId"].v, DefaultLimit)
    /\ ppc' = "fetching"
    /\ ResolveLeft
    /\ UNCHANGED <<dois, i, all_forward_citations, doc_log, main_out,
                   ctorVars, netVars, waitVars>>

\* a faulty accumulation that keeps the rows of the latest document only
ProcessNormalizeOverwrites ==
    /\ ppc = "fetching"
    /\ fpc = "returned"
    /\ LET citations == all_citations
           results == [k \in 1..Len(citations) |-> NormalizeRun(citations[k], dois[i], paper)]
       IN  IF \E k \in 1..Len(results) : ~results[k].ok
           THEN /\ ppc' = "raised"
                /\ UNCHANGED <<all_forward_citations, waits>>
           ELSE /\ ppc' = "for"
                /\ waits' = Append(waits, delay)
                /\ all_forward_citations' = [k \in 1..Len(results) |-> results[k].rows]
    /\ doc_log' = Append(doc_log, DocEntry(dois[i], paper, "ok", flog))
    /\ FetchLeft
    /\ UNCHANGED <<dois, i, paper, main_out, ctorVars, resolveVars, netVars, requested>>

\* lines 125-157: a row for each citation, then time.sleep(self.delay); an
\* exception raised on the way leaves process_dois, which catches nothing
ProcessNormalize ==
    /\ ppc = "fetching"
    /\ fpc = "returned"
    /\ LET citations == all_citations
           results == [k \in 1..Len(citations) |-> NormalizeRun(citations[k], dois[i], paper)]
       IN  IF \E k \in 1..Len(results) : ~results[k].ok
           THEN /\ ppc' = "raised"
                /\ UNCHANGED <<all_forward_citations, waits>>
           ELSE /\ ppc' = "for"
                /\ waits' = Append(waits, delay)
                /\ all_forward_citations' =
                      all_forward_citations \o [k \in 1..Len(results) |-> results[k].rows]
    /\ doc_log' = Append(doc_log, DocEntry(dois[i], paper, "ok", flog))
    /\ FetchLeft
    /\ UNCHANGED <<dois, i, paper, main_out, ctorVars, resolveVars, netVars, requested>>

\* line 159: return pd.DataFrame(all_forward_citations)
ProcessReturn ==
    /\ ppc = "for"
    /\ i = Len(dois)
    /\ ppc' = "done"
    /\ UNCHANGED <<dois, i, paper, all_forward_citations, doc_log, main_out,
                   ctorVars, fetchVars, resolveVars, netVars, waitVars>>

(***************************************************************************)
(* main, lines 178-188: what it prints about the dataset                   *)
(***************************************************************************)
MainApiKey == PyNone     \* line 170

Report(results_df) ==
    IF results_df = <<>>
    THEN "No citations found. Check your DOIs or try different papers."
    ELSE "Results saved"

MainReports ==
    /\ ppc = "done"
    /\ ppc' = "reported"
    /\ main_out' = Report(all_forward_citations)
    /\ UNCHANGED <<dois, i, paper, all_forward_citations, doc_log,
                   ctorVars, fetchVars, resolveVars, netVars, waitVars>>

(***************************************************************************)
(* SpecFetch: one call get_forward_citations(paper_id, limit)              *)
(***************************************************************************)
Limits == {1, 2, 400, 1000, 2500}

InitFetch ==
    /\ \E key \in ApiKeys : Construct(key)
    /\ \E lim \in Limits :
          /\ fpc = "loop"
          /\ f_paper_id = <<"P">>
          /\ limit = lim
          /\ params_limit = PageSize(lim)
          /\ offset = 0
          /\ all_citations = <<>>
          /\ flog = <<>>
    /\ ResolveIdle
    /\ ProcessIdle
    /\ outstanding = 0
    /\ requested = FALSE
    /\ waits = <<>>
    /\ svc_throttles = 0
    /\ svc_full_pages = 0

NextFetch ==
    FetchStep(PageSizeChoices(params_limit), {FullShape},
              OtherStatuses \cup {StatusNotFound}, {"timeout", "exception"},
              MaxPages, MaxThrottle)

SpecFetch == InitFetch /\ [][NextFetch]_vars

(***************************************************************************)
(* SpecResolve: one call get_paper_by_doi(doi); the service may throttle   *)
(* for as long as it likes                                                 *)
(***************************************************************************)
DoiCore == <<"1", "/", "x">>

ResolveDois ==
    { DoiCore,
      <<"D", "O", "I", ":">> \o DoiCore,
      <<"d", "o", "i", ":">> \o DoiCore,
      <<"D", "o", "i", ":">> \o DoiCore,
      <<" ">> \o DoiCore \o <<" ">>,
      DoiCore \o <<"d", "o", "i", ":">> \o DoiCore }

InitResolve ==
    /\ \E key \in ApiKeys : Construct(key)
    /\ \E doi \in ResolveDois :
          /\ rpc = "request"
          /\ doi_arg = doi
          /\ depth = 1
          /\ caller_frames = 1
          /\ r_result = PyNone
          /\ r_requests = 0
          /\ r_cooldowns = 0
          /\ r_slept = 0
          /\ r_sent = {}
          /\ r_last = "none"
    /\ FetchIdle
    /\ ProcessIdle
    /\ outstanding = 0
    /\ requested = FALSE
    /\ waits = <<>>
    /\ svc_throttles = 0
    /\ svc_full_pages = 0

NextResolve ==
    \/ ResolveRequest
    \/ \E shape \in PaperShapes : ResolveOK(shape)
    \/ ResolveNotFound
    \/ ResolveThrottled(RecursionLimit)
    \/ \E s \in OtherStatuses : ResolveHttpError(s)
    \/ \E k \in {"timeout", "exception"} : ResolveRaised(k)

SpecResolve == InitResolve /\ [][NextResolve]_vars

(***************************************************************************)
(* Spec: process_dois(dois) as main calls it, on a list of up to MaxDois   *)
(* documents                                                               *)
(***************************************************************************)
MaxDois == 2

DoiA == DoiCore
DoiB == <<"D", "O", "I", ":", "2", "/", "y">>

\* the list main is given: n documents, DoiA and DoiB in turn
DoiList(n) == [k \in 1..n |-> IF k % 2 = 1 THEN DoiA ELSE DoiB]

\* the answers of the service in a run of process_dois
RunPaperShapes == {FullPaper, [FullPaper EXCEPT !.title = "null"]}
RunPageSizes == {0, 3, 1000}
RunStatuses == {500}
RunRaised == {"timeout"}
RunEdgeShapes == {FullShape, <<"authors", "null">>}

Init ==
    /\ Construct(MainApiKey)
    /\ \E n \in 0..MaxDois :
          /\ ppc = "for"
          /\ dois = DoiList(n)
          /\ i = 0
          /\ paper = PyNone
          /\ all_forward_citations = <<>>
          /\ doc_log = <<>>
          /\ main_out = "none"
    /\ ResolveIdle
    /\ FetchIdle
    /\ outstanding = 0
    /\ requested = FALSE
    /\ waits = <<>>
    /\ svc_throttles = 0
    /\ svc_full_pages = 0

Next ==
    \/ ProcessResolve
    \/ ProcessSkip
    \/ ProcessFetch
    \/ ProcessNormalize
    \/ ProcessReturn
    \/ MainReports
    \/ ResolveRequest
    \/ \E shape \in RunPaperShapes : ResolveOK(shape)
    \/ ResolveNotFound
    \/ ResolveThrottled(RunMaxThrottle)
    \/ \E s \in RunStatuses : ResolveHttpError(s)
    \/ \E k \in RunRaised : ResolveRaised(k)
    \/ FetchStep(RunPageSizes, RunEdgeShapes, RunStatuses, RunRaised,
                 RunMaxPages, RunMaxThrottle)

Spec == Init /\ [][Next]_vars

(***************************************************************************)
(* SpecNormalize: process_dois on one document whose citations come on one *)
(* short page, with edges of every shape                                   *)
(***************************************************************************)
NormalizePageSizes == {0, 1, 2}

InitNormalize ==
    /\ Construct(MainApiKey)
    /\ ppc = "for"
    /\ dois = <<DoiA>>
    /\ i = 0
    /\ paper = PyNone
    /\ all_forward_citations = <<>>
    /\ doc_log = <<>>
    /\ main_out = "none"
    /\ ResolveIdle
    /\ FetchIdle
    /\ outstanding = 0
    /\ requested = FALSE
    /\ waits = <<>>
    /\ svc_throttles = 0
    /\ svc_full_pages = 0

NextNormalize ==
    \/ ProcessResolve
    \/ ResolveRequest
    \/ \E shape \in PaperShapes : ResolveOK(shape)
    \/ ProcessSkip
    \/ ProcessFetch
    \/ FetchRequest
    \/ \E n \in NormalizePageSizes, shape \in EdgeShapes : FetchOK(n, shape, 0)
    \/ ProcessNormalize
    \/ ProcessReturn
    \/ MainReports

SpecNormalize == InitNormalize /\ [][NextNormalize]_vars

(***************************************************************************)
(* SpecGoverned: process_dois on one document, by a scraper built with any *)
(* api_key, against a service that throttles the resolver and the fetcher  *)
(***************************************************************************)
InitGoverned ==
    /\ \E key \in ApiKeys : Construct(key)
    /\ ppc = "for"
    /\ dois = <<DoiA>>
    /\ i = 0
    /\ paper = PyNone
    /\ all_forward_citations = <<>>
    /\ doc_log = <<>>
    /\ main_out = "none"
    /\ ResolveIdle
    /\ FetchIdle
    /\ outstanding = 0
    /\ requested = FALSE
    /\ waits = <<>>
    /\ svc_throttles = 0
    /\ svc_full_pages = 0

NextGoverned ==
    \/ ProcessResolve
    \/ ProcessSkip
    \/ ProcessFetch
    \/ ProcessNormalize
    \/ ProcessReturn
    \/ MainReports
    \/ ResolveRequest
    \/ ResolveOK(FullPaper)
    \/ ResolveNotFound
    \/ ResolveThrottled(MaxThrottle)
    \/ \E s \in RunStatuses : ResolveHttpError(s)
    \/ \E k \in RunRaised : ResolveRaised(k)
    \/ FetchStep(RunPageSizes, {FullShape}, RunStatuses, RunRaised,
                 MaxPages, MaxThrottle)

SpecGoverned == InitGoverned /\ [][NextGoverned]_vars

(***************************************************************************)
(* C1. For every limit L >= 1 the fetch works with pageSize = min(L, 1000) *)
(* and keeps the cursor relative to that pageSize: a page of exactly       *)
(* pageSize edges is followed by a request at offset + pageSize, and a     *)
(* 200 response ends the fetch only when its page is empty or has fewer    *)
(* than pageSize edges.                                                    *)
(***************************************************************************)
C1_CursorRelativeToPageSize ==
    /\ params_limit = Min(limit, 1000)
    /\ \A k \in RespIndices(flog) :
          IsOKResp(flog[k]) =>
             /\ flog[k].n = params_limit =>
                   /\ ~(fpc = "returned" /\ k = Len(flog))
                   /\ NextReqAfter(flog, k) # 0 =>
                         flog[NextReqAfter(flog, k)].offset
                            = RequestOf(flog, k).offset + params_limit
             /\ (fpc = "returned" /\ k = Len(flog)) => flog[k].n < params_limit

(***************************************************************************)
(* C2. With the default limit of 1000 and a service that neither throttles *)
(* nor faults, the requests go out at offsets 0, 1000, 2000, ..., the      *)
(* fetch ends right after the first page that is empty or has fewer than   *)
(* 1000 edges, and it returns the pages received, concatenated in order.   *)
(***************************************************************************)
C2_DefaultPagination ==
    (limit = DefaultLimit /\ NoThrottleNoFault(flog)) =>
        LET offs  == ReqOffsets(flog)
            sizes == PageSizes(flog)
        IN  /\ \A j \in 1..Len(offs) : offs[j] = 1000 * (j - 1)
            /\ \A j \in 1..Len(offs) : params_limit = 1000
            /\ \A j \in 1..Len(sizes) : j < Len(sizes) => sizes[j] >= 1000
            /\ fpc = "returned" <=> (sizes # <<>> /\ sizes[Len(sizes)] < 1000)
            /\ fpc = "returned" => Len(offs) = Len(sizes)
            /\ all_citations = PagesUpTo(flog, Len(flog))

\* two full pages and a page of 400: three requests, 2400 edges
C2_Witness ==
    /\ fpc = "returned"
    /\ limit = DefaultLimit
    /\ PageSizes(flog) = <<1000, 1000, 400>>
    /\ ReqOffsets(flog) = <<0, 1000, 2000>>
    /\ NoThrottleNoFault(flog)
    /\ PyLen(all_citations) = 2400
    /\ \A j \in 1..2400 : Edges(all_citations)[j].pos = j

(***************************************************************************)
(* C3. Every 429 answer to a page request leaves the offset and the        *)
(* accumulator as they were, is followed by exactly one cooldown of 60     *)
(* seconds and then by one more request at the same offset; the edges      *)
(* returned are those of the same run with the throttled exchanges taken   *)
(* out.                                                                    *)
(***************************************************************************)
C3_ThrottleRetriesSameOffset ==
    /\ \A k \in RespIndices(flog) :
          IsThrottleResp(flog[k]) =>
             /\ k + 1 <= Len(flog)
             /\ flog[k + 1] = EvSleep(Hundredths(60))
             /\ k + 2 <= Len(flog) => flog[k + 2] = RequestOf(flog, k)
             /\ k + 2 > Len(flog) =>
                   /\ fpc = "loop"
                   /\ offset = RequestOf(flog, k).offset
             /\ PagesUpTo(flog, k + 1) = PagesUpTo(flog, k - 1)
    /\ LET plain == WithoutThrottling(flog)
       IN  /\ \A k \in RespIndices(plain) : ~IsThrottleResp(plain[k])
           /\ \A j \in 1..Len(ReqOffsets(plain)) :
                 ReqOffsets(plain)[j] = OffsetStep * (j - 1)
           /\ all_citations = PagesUpTo(plain, Len(plain))

\* a throttled first page, a throttled second page, then the last page
C3_Witness ==
    /\ fpc = "returned"
    /\ ThrottleCount(flog) = 2
    /\ ReqOffsets(flog) = <<0, 0, 1000, 1000>>
    /\ PageSizes(flog) = <<1000, 400>>
    /\ PyLen(all_citations) = 1400

(***************************************************************************)
(* C4. A page request that ends in a timeout, another exception or a       *)
(* status other than 200 and 429 is the last request of the call, and the  *)
(* call returns the edges of the pages received before it, in order.       *)
(***************************************************************************)
C4_FaultReturnsPartial ==
    \A k \in RespIndices(flog) :
        IsFaultResp(flog[k]) =>
           /\ k = Len(flog)
           /\ fpc = "returned"
           /\ outstanding = 0
           /\ all_citations = PagesUpTo(flog, k - 1)
           /\ PyLen(all_citations) >= OffsetStep * (Len(PageSizes(flog)))
           /\ PageSizes(flog) = <<>> => all_citations = <<>>

\* the second request times out: the first page's 1000 edges are returned
C4_Witness ==
    /\ fpc = "returned"
    /\ Len(flog) = 6
    /\ IsFaultResp(flog[6])
    /\ flog[6].kind = "timeout"
    /\ PageSizes(flog) = <<1000>>
    /\ PyLen(all_citations) = 1000

(***************************************************************************)
(* C5. In get_paper_by_doi, n answers of 429 followed by another answer    *)
(* cost exactly n cooldowns of 60 seconds and n+1 identical requests, for  *)
(* every n: the call never returns without an answer other than 429.       *)
(***************************************************************************)
C5_ThrottleRetriedWithoutBound ==
    rpc = "returned" =>
        /\ r_last # "recursion"
        /\ r_requests = r_cooldowns + 1
        /\ r_slept = r_cooldowns * Hundredths(60)
        /\ Cardinality(r_sent) = 1

(***************************************************************************)
(* C6. In get_paper_by_doi, a 404, a timeout, another exception or a       *)
(* status other than 200 and 429 makes the call return None with no        *)
(* request and no wait after it: one request in all when it is the first   *)
(* answer.                                                                 *)
(***************************************************************************)
ResolveFaults == {"notfound", "timeout", "exception", "httperror"}

C6_FaultGivesNoneWithoutRetry ==
    (rpc = "returned" /\ r_last \in ResolveFaults) =>
        /\ r_result = PyNone
        /\ outstanding = 0
        /\ r_requests = r_cooldowns + 1
        /\ r_slept = r_cooldowns * Hundredths(60)
        /\ r_cooldowns = 0 => (r_requests = 1 /\ r_slept = 0)

C6_Witness ==
    /\ rpc = "returned"
    /\ r_last = "timeout"
    /\ r_requests = 1
    /\ r_cooldowns = 0
    /\ r_slept = 0
    /\ r_result = PyNone

(***************************************************************************)
(* Reading the log of a run of process_dois.                               *)
(***************************************************************************)
Resolved(entry) == Truthy(entry.paper)

\* the document ended in NotFound or in a transport fault, in its resolve or
\* in its pagination
Failed(entry) == ~Resolved(entry) \/ entry.last \in {"timeout", "exception", "httperror"}

\* the row runs a document contributes: one for each page it fetched
RunsOfDoc(entry) ==
    IF Resolved(entry)
    THEN [k \in 1..Len(entry.pages) |->
             [doi |-> entry.doi, paper |-> entry.paper, off |-> entry.pages[k].off,
              n |-> entry.pages[k].n, shape |-> entry.pages[k].shape]]
    ELSE <<>>

RECURSIVE RunsOfDocs(_)
RunsOfDocs(log) ==
    IF log = <<>> THEN <<>> ELSE RunsOfDoc(Head(log)) \o RunsOfDocs(Tail(log))

\* the paperId the service gave the citing paper of an edge
CitingIdOf(edge) ==
    Get(Get(EdgeJson(edge), "citingPaper", EmptyDict), "paperId", EmptyStr)

\* for each edge fetched, in input order and then in edge order: the
\* document's identifier as given, its resolved id, and the citing paper
RECURSIVE KeysOfDocs(_)
KeysOfDocs(log) ==
    IF log = <<>> THEN <<>>
    ELSE LET entry == Head(log)
             edges == IF Resolved(entry) THEN Edges(entry.pages) ELSE <<>>
         IN  [k \in 1..Len(edges) |->
                 <<entry.doi, entry.paper.v["paperId"], CitingIdOf(edges[k])>>]
                \o KeysOfDocs(Tail(log))

\* the same three things as the rows of the dataset tell them
KeysOfRows(rows) ==
    [k \in 1..Len(rows) |->
        <<rows[k].original_doi.v, rows[k].original_paper_id, rows[k].citing_paper_id>>]

Returned == ppc \in {"done", "reported"}

(***************************************************************************)
(* C7. process_dois never aborts because of one document: a document that  *)
(* ends in NotFound or in a transport fault (in its resolve or in its      *)
(* pagination) is followed by the next document or by the normal return,   *)
(* and the documents are attempted in input order, all of them.            *)
(***************************************************************************)
C7_FailedDocumentNeverAborts ==
    /\ Len(doc_log) <= Len(dois)
    /\ \A k \in 1..Len(doc_log) : doc_log[k].doi = dois[k]
    /\ Returned => Len(doc_log) = Len(dois)
    /\ \A k \in 1..Len(doc_log) :
          Failed(doc_log[k]) => (ppc # "raised" \/ k < Len(doc_log))

(***************************************************************************)
(* C8. Normalising the edges of a successful response never fails: no      *)
(* exception leaves process_dois, whichever nested field of an edge is     *)
(* missing or null.                                                        *)
(***************************************************************************)
C8_NormalisationNeverFails == ppc # "raised"

(***************************************************************************)
(* C9. The dataset process_dois returns holds, for each document that      *)
(* resolved, one row for each edge its fetch returned, in edge order, with *)
(* original_doi the identifier as given and original_paper_id the resolved *)
(* id; a document that did not resolve gives no row; the documents' rows   *)
(* come in input order.                                                    *)
(***************************************************************************)
\* datasets up to this size are compared row by row, larger ones run by run
SmallDataset == 6

C9_DatasetIsRowsOfResolvedDocs ==
    Returned =>
        /\ all_forward_citations = RunsOfDocs(doc_log)
        /\ PyLen(all_forward_citations)
              = PyLen(RunsOfDocs(SelectSeq(doc_log, Resolved)))
        /\ PyLen(all_forward_citations) <= SmallDataset =>
              KeysOfRows(Rows(all_forward_citations)) = KeysOfDocs(doc_log)

\* two DOIs: the first resolves and has 3 edges on one page, the second is
\* not found: 3 rows, all of the first DOI
C9_Witness ==
    /\ ppc = "done"
    /\ dois = <<DoiA, DoiB>>
    /\ Resolved(doc_log[1])
    /\ ~Resolved(doc_log[2])
    /\ doc_log[2].resolve = "notfound"
    /\ PyLen(doc_log[1].pages) = 3
    /\ Len(Rows(all_forward_citations)) = 3
    /\ \A k \in 1..3 : Rows(all_forward_citations)[k].original_doi = PyStr(DoiA)

(***************************************************************************)
(* C10. A run in which no document resolved and a run in which a document  *)
(* resolved but every resolved document has no citation differ in what     *)
(* process_dois returns or in what main reports of it.                     *)
(***************************************************************************)
\* what process_dois returns and main reports when no document resolved
NothingResolvedOutcome == <<<<>>, Report(<<>>)>>

C10_NoResultsDistinguishable ==
    ppc = "reported" =>
        /\ (\A k \in 1..Len(doc_log) : ~Resolved(doc_log[k]))
              => <<all_forward_citations, main_out>> = NothingResolvedOutcome
        /\ (/\ \E k \in 1..Len(doc_log) : Resolved(doc_log[k])
            /\ \A k \in 1..Len(doc_log) : Resolved(doc_log[k]) => doc_log[k].pages = <<>>)
              => <<all_forward_citations, main_out>> # NothingResolvedOutcome

(***************************************************************************)
(* C11. Whenever the service answers the resolve request with status 200,  *)
(* get_paper_by_doi returns the paper record, not None, whichever of       *)
(* title, year and corpusId is present, missing or null.                   *)
(***************************************************************************)
C11_FoundPaperIsReturned ==
    (rpc = "returned" /\ r_last = "ok") =>
        /\ r_result # PyNone
        /\ r_result.t = "dict"
        /\ Get(r_result, "paperId", PyNone) = PaperIdOf(CleanDoi(doi_arg))

(***************************************************************************)
(* C12. The citing_abstract of a row is the empty string when the citing   *)
(* paper's abstract is absent, null or empty, and otherwise the first 500  *)
(* characters of the abstract followed by '...', whatever its length.      *)
(***************************************************************************)
\* the abstract the service sent with an edge; None when it sent none
GivenAbstract(edge) ==
    Get(Get(EdgeJson(edge), "citingPaper", EmptyDict), "abstract", PyNone)

C12_AbstractCutAndMarked ==
    (ppc \in {"for", "done", "reported"} /\ doc_log # <<>> /\ Resolved(doc_log[1])) =>
        LET edges == Edges(doc_log[1].pages)
            rows  == Rows(all_forward_citations)
            Expected(a) ==
                IF a.t = "None" \/ a.v = <<>>
                THEN PyStr(<<>>)
                ELSE PyStr(SubSeq(a.v, 1, IF Len(a.v) < 500 THEN Len(a.v) ELSE 500)
                              \o <<".", ".", ".">>)
        IN  /\ Len(rows) = Len(edges)
            /\ \A k \in 1..Len(rows) :
                  rows[k].citing_abstract = Expected(GivenAbstract(edges[k]))

\* an abstract of 600 characters: its first 500 and the marker
C12_Witness ==
    /\ ppc = "done"
    /\ PyLen(all_forward_citations) = 1
    /\ doc_log[1].pages[1].shape = <<"abstract", "len600">>
    /\ Len(GivenAbstract(Edges(doc_log[1].pages)[1]).v) = 600
    /\ LET got == Rows(all_forward_citations)[1].citing_abstract.v
       IN  /\ Len(got) = 503
           /\ SubSeq(got, 1, 500) = AbstractText(500)
           /\ SubSeq(got, 501, 503) = <<".", ".", ".">>

(***************************************************************************)
(* C13. For every identifier x and every letter-casing of the prefix       *)
(* 'doi:', get_paper_by_doi(prefix + x) sends the same query as            *)
(* get_paper_by_doi(x); only a leading prefix is taken off, and an         *)
(* identifier without one goes into the URL as given (surrounding          *)
(* whitespace apart).                                                      *)
(***************************************************************************)
C13_PrefixOffInAnyCase ==
    LET \* 'doi:' in every casing of its letters
        prefixes == {<<d, o, j, ":">> : d \in {"d", "D"}, o \in {"o", "O"}, j \in {"i", "I"}}
    IN  \A req \in r_sent :
            IF \E pre \in prefixes : StartsWith(doi_arg, pre)
            THEN req.url = ResolveRequestOf(SubSeq(doi_arg, 5, Len(doi_arg))).url
            ELSE req.url = <<"/", "p", "a", "p", "e", "r", "/", "D", "O", "I", ":">>
                              \o Strip(doi_arg)

(***************************************************************************)
(* C14. In a run of process_dois, between any two consecutive network      *)
(* requests there is at least one wait, a delay of self.delay or a         *)
(* cooldown of 60: no request but the first of the run is sent with        *)
(* nothing slept since the request before it.                              *)
(***************************************************************************)
C14_WaitBetweenRequests ==
    [][(outstanding' = outstanding + 1 /\ requested) => waits # <<>>]_vars

(***************************************************************************)
(* C15. The delay between requests is the short one (0.31) exactly when a  *)
(* credential is configured, that is sent with the requests, and the long  *)
(* one (3.1) otherwise; the cooldown after a 429 is 60, in the resolver    *)
(* and in the fetcher, whatever the credential and however many 429        *)
(* answers came in a row.                                                  *)
(***************************************************************************)
C15_DelaysByCredential ==
    /\ delay = (IF "x-api-key" \in DOMAIN headers THEN 31 ELSE 310)
    /\ r_slept = r_cooldowns * 6000
    /\ \A k \in 1..Len(flog) :
          (flog[k].e = "sleep") =>
              flog[k].d = (IF IsThrottleResp(flog[k - 1]) THEN 6000
                           ELSE IF "x-api-key" \in DOMAIN headers THEN 31 ELSE 310)
    /\ \A k \in 1..Len(waits) :
          waits[k] \in {6000, IF "x-api-key" \in DOMAIN headers THEN 31 ELSE 310}
    /\ (rpc = "request" /\ r_cooldowns > 0) =>
          waits = <<6000>>

\* with a key the delay is 0.31; the second of two 429 answers in a row to
\* the resolver is followed by a cooldown of 60 like the first
C15_Witness ==
    /\ api_key = PyStr(<<"k">>)
    /\ delay = 31
    /\ rpc = "request"
    /\ r_cooldowns = 2
    /\ r_slept = 12000
    /\ waits = <<6000>>

(***************************************************************************)
(* C16. Throttling is never surfaced as an error and is the only thing     *)
(* that keeps a call from finishing: a request answered with 429 is sent   *)
(* again and again for as long as the service throttles it, so a call of   *)
(* get_paper_by_doi that has returned has had an answer other than 429 to  *)
(* its latest request, and its result is the outcome of that answer.       *)
(***************************************************************************)
C16_OnlyThrottlingStalls ==
    rpc = "returned" =>
        /\ r_requests > r_cooldowns
        /\ r_last \in {"ok", "notfound", "httperror", "timeout", "exception"}

(***************************************************************************)
(* C17. Requests are strictly sequential: at most one request is           *)
(* outstanding at any time; a document's resolve requests come before all  *)
(* of its page requests; the offsets of its page requests never decrease;  *)
(* and every request for a document is sent before any request for the     *)
(* next one.                                                               *)
(***************************************************************************)
C17_RequestsSequential ==
    /\ outstanding \in {0, 1}
    /\ outstanding = 1 <=> (rpc = "awaiting" \/ fpc = "awaiting")
    /\ ~(rpc = "awaiting" /\ fpc = "awaiting")
    \* while the resolver is at work for document i nothing of its fetch has
    \* begun and the documents before it are over
    /\ rpc # "idle" =>
          /\ ppc = "resolving"
          /\ fpc = "idle" /\ flog = <<>>
          /\ Len(doc_log) = i - 1
    \* while the fetcher is at work for document i its resolve is over
    /\ fpc # "idle" =>
          /\ ppc = "fetching"
          /\ rpc = "idle" /\ r_requests = 0
          /\ Truthy(paper) /\ f_paper_id = paper.v["paperId"].v
          /\ Len(doc_log) = i - 1
    /\ LET offs == ReqOffsets(flog)
       IN  \A a, b \in 1..Len(offs) : a < b => offs[a] <= offs[b]
    \* between documents, and at the end, nothing is in flight
    /\ ppc \in {"for", "done", "reported", "raised"} =>
          /\ rpc = "idle" /\ fpc = "idle"
          /\ outstanding = 0
          /\ Len(doc_log) = i

\* the second page request of the second document is outstanding; the first
\* document has been resolved and fetched
C17_Witness ==
    /\ i = 2
    /\ Len(doc_log) = 1
    /\ doc_log[1].pages # <<>>
    /\ fpc = "awaiting"
    /\ outstanding = 1
    /\ ReqOffsets(flog) = <<0, 1000>>

(***************************************************************************)
(* C18. Provided the service never sends more edges in a page than the     *)
(* page size requested, every page request of get_forward_citations asks   *)
(* for the offset that equals the number of edges accumulated so far, so   *)
(* the list returned holds the edges at positions 1, 2, ..., each once,    *)
(* with no gap and no duplicate, whatever 429 answers come in between.     *)
(***************************************************************************)
\* no 200 answer in the log has more edges than its request asked for
NoOversizePage(log) ==
    \A k \in RespIndices(log) :
        IsOKResp(log[k]) => log[k].n <= RequestOf(log, k).limit

C18_OffsetIsEdgesSoFar ==
    NoOversizePage(flog) =>
        /\ \A k \in ReqIndices(flog) :
              flog[k].offset = PyLen(PagesUpTo(flog, k - 1))
        /\ fpc = "loop" => offset = PyLen(all_citations)
        /\ LET edges == Edges(all_citations)
           IN  \A j \in 1..Len(edges) : edges[j].pos = j

\* two full pages and a last page of 400, with 429 answers in between
C18_Witness ==
    /\ fpc = "returned"
    /\ NoOversizePage(flog)
    /\ ThrottleCount(flog) = 2
    /\ ReqOffsets(flog) = <<0, 1000, 1000, 2000, 2000>>
    /\ PyLen(all_citations) = 2400

(***************************************************************************)
(* C19. For every api_key given to the constructor (None, the empty        *)
(* string, a non-empty string) the three settings derived from it agree:   *)
(* has_api_key is true exactly when the x-api-key header is attached,      *)
(* exactly when the delay is the short one, 0.31.                          *)
(***************************************************************************)
C19_CredentialSettingsAgree ==
    /\ has_api_key <=> "x-api-key" \in DOMAIN headers
    /\ "x-api-key" \in DOMAIN headers <=> delay = 31

====
